---------------------------- MODULE Spec2Model ----------------------------
(***************************************************************************)
(* A model of diskkid/mp3decoder (src/main.rs): the frame-header parser,   *)
(* the side-information parsers, the channel parser and the driver `open`  *)
(* that reads the first two frames of a file.                              *)
(*                                                                         *)
(* Bytes are naturals in 0..255.  Rust indexes from 0 and TLA+ sequences   *)
(* from 1: At(s, i) is the Rust expression s[i].  A Rust panic is the      *)
(* result [kind |-> "Panic", msg |-> ...].                                 *)
(***************************************************************************)
EXTENDS Naturals, Sequences, FiniteSets, TLC

VARIABLES
    pc,                \* the position of the caller / of `open`
    frame_header,      \* new_frame_header's buffer (main.rs:158)
    header,            \* what new_frame_header produced
    side,              \* the side-information block (main.rs:228, 232)
    side_info,         \* what new_side_info_* produced
    bytes,             \* new_channel's argument (main.rs:259)
    channel,           \* what new_channel produced
    file,              \* the bytes of the file `open` reads
    pos,               \* the reader's cursor into file
    open_frame_header, \* open's own 4-byte buffer (main.rs:340)
    sync_at,           \* file offset of the bytes last put in open_frame_header
    decoded_at,        \* file offset of the bytes new_frame_header last decoded
    result             \* what `open` returned

vars == <<pc, frame_header, header, side, side_info, bytes, channel,
          file, pos, open_frame_header, sync_at, decoded_at, result>>

---------------------------------------------------------------------------
(* Rust's integer operators on unsigned values.                            *)

RECURSIVE BitAnd(_, _)
\* a & b
BitAnd(a, b) ==
    IF a = 0 \/ b = 0 THEN 0
    ELSE (IF a % 2 = 1 /\ b % 2 = 1 THEN 1 ELSE 0) + 2 * BitAnd(a \div 2, b \div 2)

RECURSIVE BitOr(_, _)
\* a | b
BitOr(a, b) ==
    IF a = 0 THEN b
    ELSE IF b = 0 THEN a
    ELSE (IF a % 2 = 1 \/ b % 2 = 1 THEN 1 ELSE 0) + 2 * BitOr(a \div 2, b \div 2)

\* a << n in an unsigned type of w bits: the bits shifted out are dropped
\* (Rust checks the shift amount, not the value).
Shl(a, n, w) == (a * (2 ^ n)) % (2 ^ w)

\* a >> n
Shr(a, n) == a \div (2 ^ n)

\* s[i], i counted from 0
At(s, i) == s[i + 1]

None == [kind |-> "None"]

Panic(m) == [kind |-> "Panic", msg |-> m]

---------------------------------------------------------------------------
(* The format tables.                                                      *)

\* bitrate -> [32kHz, 44.1kHz, 48kHz]
FRAME_SIZE_MAP ==
    (32 :> <<144, 104, 96>>) @@ (40 :> <<180, 130, 120>>) @@
    (48 :> <<216, 156, 120>>) @@ (56 :> <<252, 182, 168>>) @@
    (64 :> <<288, 208, 192>>) @@ (80 :> <<360, 261, 240>>) @@
    (96 :> <<432, 313, 288>>) @@ (112 :> <<504, 365, 336>>) @@
    (128 :> <<576, 417, 384>>) @@ (160 :> <<720, 522, 480>>) @@
    (192 :> <<864, 626, 576>>) @@ (224 :> <<1008, 731, 672>>) @@
    (256 :> <<1152, 835, 768>>) @@ (320 :> <<1440, 1044, 960>>)

\* rows: bitrate index 0..14; columns: Layer 1, 2, 3
BITRATE_MAP ==
    << <<0, 0, 0>>,
       <<32, 32, 32>>,
       <<64, 48, 40>>,
       <<96, 56, 48>>,
       <<128, 64, 56>>,
       <<160, 80, 64>>,
       <<192, 96, 80>>,
       <<224, 112, 96>>,
       <<256, 128, 112>>,
       <<288, 160, 128>>,
       <<320, 192, 160>>,
       <<352, 224, 192>>,
       <<384, 256, 224>>,
       <<416, 320, 256>>,
       <<448, 384, 320>> >>

SAMPLING_FREQ_MAP == <<44100, 48000, 32000>>

---------------------------------------------------------------------------
(* The frame header.                                                       *)

has_sync_word(fh) ==
    At(fh, 0) = 255 /\ BitAnd(At(fh, 1), 224) = 224

\* (frame_header[1] & 0b00011000) >> 3
version_code(fh) == Shr(BitAnd(At(fh, 1), 24), 3)

\* (frame_header[1] & 0b00000110) >> 1
layer_code(fh) == Shr(BitAnd(At(fh, 1), 6), 1)

layer_of(fh) ==
    CASE layer_code(fh) = 0 -> "Reserved"
      [] layer_code(fh) = 1 -> "L3"
      [] layer_code(fh) = 2 -> "L2"
      [] layer_code(fh) = 3 -> "L1"

\* ((frame_header[2] & 0b11110000) >> 4) as usize
bitrate_index(fh) == Shr(BitAnd(At(fh, 2), 240), 4)

\* Layer::L3 => 2, Layer::L2 => 1, Layer::L1 => 0
layer_index(fh) ==
    CASE layer_of(fh) = "L3" -> 2
      [] layer_of(fh) = "L2" -> 1
      [] layer_of(fh) = "L1" -> 0

\* (frame_header[2] & 0b00001100 >> 2) as usize: in Rust >> binds tighter
\* than &, so the mask is 0b00001100 >> 2 = 0b00000011.
sampling_freq_index(fh) == BitAnd(At(fh, 2), Shr(12, 2))

\* the column of FRAME_SIZE_MAP for a sampling frequency
size_column(sampling_freq) ==
    CASE sampling_freq = 44100 -> 1
      [] sampling_freq = 48000 -> 2
      [] sampling_freq = 32000 -> 0

mode_of(fh) ==
    CASE Shr(BitAnd(At(fh, 3), 192), 6) = 0 -> "Stereo"
      [] Shr(BitAnd(At(fh, 3), 192), 6) = 1 -> "JointStereo"
      [] Shr(BitAnd(At(fh, 3), 192), 6) = 2 -> "DualMonaural"
      [] Shr(BitAnd(At(fh, 3), 192), 6) = 3 -> "SingleChannel"

\* new_frame_header applied to the 4 bytes it has read, in the order of the
\* code: the first panic met is the outcome.
new_frame_header(fh) ==
    IF version_code(fh) = 1
    THEN Panic("1 is not supported MPEG version ID")
    ELSE IF layer_of(fh) = "Reserved"
    THEN Panic("Layer::Reserved is not supported")
    ELSE IF bitrate_index(fh) >= Len(BITRATE_MAP)
    THEN Panic("index out of bounds: BITRATE_MAP")
    ELSE IF sampling_freq_index(fh) >= Len(SAMPLING_FREQ_MAP)
    THEN Panic("index out of bounds: SAMPLING_FREQ_MAP")
    ELSE
      LET bitrate       == At(At(BITRATE_MAP, bitrate_index(fh)), layer_index(fh))
          sampling_freq == At(SAMPLING_FREQ_MAP, sampling_freq_index(fh))
      IN  IF bitrate \notin DOMAIN FRAME_SIZE_MAP
          THEN Panic("called Option::unwrap() on a None value")
          ELSE [kind          |-> "Ok",
                id            |-> CASE version_code(fh) = 0 -> "V2_5"
                                    [] version_code(fh) = 2 -> "V2"
                                    [] version_code(fh) = 3 -> "V1",
                layer         |-> layer_of(fh),
                protection    |-> BitAnd(At(fh, 1), 1) # 1,
                bitrate       |-> bitrate,
                sampling_freq |-> sampling_freq,
                padding       |-> BitAnd(At(fh, 2), 2) = 2,
                mode          |-> mode_of(fh),
                i_stereo      |-> BitAnd(At(fh, 3), 16) = 16,
                ms_stereo     |-> BitAnd(At(fh, 3), 32) = 32,
                copyright     |-> BitAnd(At(fh, 3), 8) = 8,
                original      |-> BitAnd(At(fh, 3), 4) = 4,
                emphasis      |-> BitAnd(At(fh, 3), 3),
                size          |-> At(FRAME_SIZE_MAP[bitrate], size_column(sampling_freq))]

\* FrameHeader::single_channel
single_channel(h) == h.mode = "SingleChannel"

---------------------------------------------------------------------------
(* The side information.                                                   *)

\* ((side[0] << 1) | ((side[1] & 0b10000000) >> 7)) as usize: the shift and
\* the or are done in u8, the widening comes last.
main_data_begin(sd) ==
    BitOr(Shl(At(sd, 0), 1, 8), Shr(BitAnd(At(sd, 1), 128), 7))

\* ((side[1] & 0b00000011) << 2) | ((side[2] & 0b11000000) >> 6)
scfsi_mono(sd) ==
    BitOr(Shl(BitAnd(At(sd, 1), 3), 2, 8), Shr(BitAnd(At(sd, 2), 192), 6))

\* ((side[1] & 0b00111111) << 2) | ((side[2] & 0b11000000) >> 6)
scfsi_stereo(sd) ==
    BitOr(Shl(BitAnd(At(sd, 1), 63), 2, 8), Shr(BitAnd(At(sd, 2), 192), 6))

new_side_info_mono(sd) ==
    [kind |-> "Ok", main_data_begin |-> main_data_begin(sd), scfsi |-> scfsi_mono(sd)]

new_side_info_stereo(sd) ==
    [kind |-> "Ok", main_data_begin |-> main_data_begin(sd), scfsi |-> scfsi_stereo(sd)]

\* the number of bytes new_side_info reads for a header
side_len(h) == IF single_channel(h) THEN 17 ELSE 32

---------------------------------------------------------------------------
(* The channel.                                                            *)

\* ((bytes[0] as u16) << 4) | ((bytes[1] & 0b11110000) as u16 >> 4)
part2_3_length(b) ==
    BitOr(Shl(At(b, 0), 4, 16), Shr(BitAnd(At(b, 1), 240), 4))

\* big_values with the high part shifted by 4 instead of 5
big_values_shift4(b) ==
    BitOr(Shl(BitAnd(At(b, 1), 15), 4, 16), Shr(BitAnd(At(b, 2), 248), 3))

\* (((bytes[1] & 0b00001111) as u16) << 5) | ((bytes[2] & 0b11111000) as u16 >> 3)
big_values(b) ==
    BitOr(Shl(BitAnd(At(b, 1), 15), 5, 16), Shr(BitAnd(At(b, 2), 248), 3))

\* ((bytes[2] & 0b00000111) << 5) | ((bytes[3] & 0b11111000) >> 3)
global_gain(b) ==
    BitOr(Shl(BitAnd(At(b, 2), 7), 5, 8), Shr(BitAnd(At(b, 3), 248), 3))

\* ((bytes[3] & 0b00000111) << 1) | ((bytes[4] & 0b10000000) >> 7)
scalefac_compress(b) ==
    BitOr(Shl(BitAnd(At(b, 3), 7), 1, 8), Shr(BitAnd(At(b, 4), 128), 7))

\* (bytes[4] & 0b01000000) >> 6
windows_witching_flag(b) == Shr(BitAnd(At(b, 4), 64), 6)

\* (bytes[4] & 0b00110000) >> 4
block_type_code(b) == Shr(BitAnd(At(b, 4), 48), 4)

\* block_type with the mixed flag tested one bit too low (0b00000100)
block_type_wrong_flag(b) ==
    CASE block_type_code(b) = 1 -> "Start"
      [] block_type_code(b) = 2 ->
            IF BitAnd(At(b, 4), 4) = 4 THEN "Mixed" ELSE "Short"
      [] block_type_code(b) = 3 -> "End"
      [] OTHER -> "Panic"

\* the match of the window-switched branch; code 0 panics
block_type(b) ==
    CASE block_type_code(b) = 1 -> "Start"
      [] block_type_code(b) = 2 ->
            IF BitAnd(At(b, 4), 8) = 8 THEN "Mixed" ELSE "Short"
      [] block_type_code(b) = 3 -> "End"
      [] OTHER -> "Panic"

\* table_select of the branch windows_witching_flag == 0
table_select_normal(b) ==
    << Shr(BitAnd(At(b, 4), 62), 1),
       BitOr(Shl(BitAnd(At(b, 4), 1), 4, 8), Shr(BitAnd(At(b, 5), 240), 4)),
       BitOr(Shl(BitAnd(At(b, 5), 15), 1, 8), Shr(BitAnd(At(b, 6), 128), 7)) >>

\* region_0_count and region_1_count of the branch windows_witching_flag == 0
region_counts_normal(b) ==
    << Shr(BitAnd(At(b, 6), 120), 3), BitAnd(At(b, 6), 7) >>

\* subblock_gain of the branch windows_witching_flag == 0
subblock_gain_normal(b) == <<0, 0, 0>>

\* table_select of the window-switched branch
table_select_switched(b) ==
    << BitOr(Shl(BitAnd(At(b, 4), 7), 2, 8), Shr(BitAnd(At(b, 5), 192), 6)),
       Shr(BitAnd(At(b, 5), 62), 1),
       0 >>

\* the window-switched branch filling the region counts as the other branch does
region_counts_switched_filled(b) == region_counts_normal(b)

\* region_0_count and region_1_count of the window-switched branch
region_counts_switched(b) == <<0, 0>>

\* subblock_gain of the window-switched branch
subblock_gain_switched(b) ==
    << BitOr(Shl(BitAnd(At(b, 5), 1), 2, 8), Shr(BitAnd(At(b, 6), 192), 6)),
       Shr(BitAnd(At(b, 6), 56), 3),
       BitAnd(At(b, 6), 7) >>

\* the fields both branches fill the same way
channel_common(b) ==
    [kind               |-> "Ok",
     part2_3_length     |-> part2_3_length(b),
     big_values         |-> big_values(b),
     global_gain        |-> global_gain(b),
     scalefac_compress  |-> scalefac_compress(b),
     preemphasis        |-> BitAnd(At(b, 7), 128) = 128,
     scalefac_scale     |-> BitAnd(At(b, 7), 64) = 64,
     count1table_select |-> BitAnd(At(b, 7), 32) = 32]

new_channel(b) ==
    IF windows_witching_flag(b) = 0
    THEN channel_common(b) @@
         [block_type     |-> "Normal",
          table_select   |-> table_select_normal(b),
          region_0_count |-> At(region_counts_normal(b), 0),
          region_1_count |-> At(region_counts_normal(b), 1),
          subblock_gain  |-> subblock_gain_normal(b)]
    ELSE IF block_type(b) = "Panic"
    THEN Panic("0 is not supported block type")
    ELSE channel_common(b) @@
         [block_type     |-> block_type(b),
          table_select   |-> table_select_switched(b),
          region_0_count |-> At(region_counts_switched(b), 0),
          region_1_count |-> At(region_counts_switched(b), 1),
          subblock_gain  |-> subblock_gain_switched(b)]

---------------------------------------------------------------------------
(* The inputs of the parsers, built from a few base patterns, bits        *)
(* counted most significant first from the start of the buffer: for the   *)
(* header and the side information every input within MaxFlips flipped    *)
(* bits of a base, for the channel every input that differs from a base   *)
(* in one window of WindowBits consecutive bits.                           *)

MaxFlips == 2

\* the side-information bits the flips range over (the code reads side[0..2])
SideHeadBits == 24

\* "59bit per channel": the channel bits the windows range over
ChannelBits == 59

\* the width of the window of channel bits that takes every value
WindowBits == 8

Fill(n, v) == [i \in 1..n |-> v]

\* bit k of the byte sequence bs, most significant bit of bs[0] first
Bit(bs, k) == (At(bs, k \div 8) \div (2 ^ (7 - (k % 8)))) % 2

FlipBit(bs, k) ==
    [bs EXCEPT ![(k \div 8) + 1] =
        IF Bit(bs, k) = 1 THEN @ - 2 ^ (7 - (k % 8)) ELSE @ + 2 ^ (7 - (k % 8))]

\* the choices of at most r of the bits 0..nbits-1, in increasing order; the
\* value nbits fills the places left empty
FlipChoices(nbits, r) ==
    { f \in [1..r -> 0..nbits] :
        \A i \in 1..(r - 1) : f[i] < f[i + 1] \/ f[i + 1] = nbits }

RECURSIVE ApplyFlips(_, _, _, _)
\* b with the bits f[i..] flipped
ApplyFlips(b, f, i, nbits) ==
    IF i > Len(f) \/ f[i] = nbits THEN b
    ELSE ApplyFlips(FlipBit(b, f[i]), f, i + 1, nbits)

RECURSIVE SetBits(_, _, _, _)
\* b with its w bits from bit p on set to the w-bit value v
SetBits(b, p, w, v) ==
    IF w = 0 THEN b
    ELSE SetBits(IF Bit(b, p + w - 1) = v % 2 THEN b ELSE FlipBit(b, p + w - 1),
                 p, w - 1, v \div 2)

\* [0xFF, 0xFB, 0x90, 0x00] is V1, Layer III, no CRC, 128 kbps, 44.1 kHz
HeaderBases ==
    { <<255, 251, 144, 0>>, <<255, 253, 100, 196>>, <<255, 255, 24, 64>>,
      <<255, 243, 57, 128>>, <<0, 0, 0, 0>>, <<255, 255, 255, 255>> }

SideBasesMono == {Fill(17, 0), Fill(17, 255), Fill(17, 165)}

SideBasesStereo == {Fill(32, 0), Fill(32, 255), Fill(32, 165)}

ChannelBases == {Fill(8, 0), Fill(8, 255), Fill(8, 170), Fill(8, 85)}

---------------------------------------------------------------------------
(* The parsers, each applied once to an input drawn at the start.          *)

NoDriver ==
    /\ file = <<>>
    /\ pos = 0
    /\ open_frame_header = <<>>
    /\ sync_at = 0
    /\ decoded_at = 0
    /\ result = None

Init ==
    /\ NoDriver
    /\ header = None
    /\ side_info = None
    /\ channel = None
    /\ \/ /\ pc = "new_frame_header"
          /\ \/ \E b \in HeaderBases, f \in FlipChoices(32, MaxFlips) :
                   frame_header = ApplyFlips(b, f, 1, 32)
             \* sync word present, every value of the version, layer, protection,
             \* bitrate, sampling, padding and private bits
             \/ \E f \in 0..31, b \in 0..255, m \in {0, 192} :
                   frame_header = <<255, 224 + f, b, m>>
          /\ side = <<>>
          /\ bytes = <<>>
       \/ /\ pc = "new_side_info_mono"
          /\ \E b \in SideBasesMono, f \in FlipChoices(SideHeadBits, MaxFlips) :
                side = ApplyFlips(b, f, 1, SideHeadBits)
          /\ frame_header = <<>>
          /\ bytes = <<>>
       \/ /\ pc = "new_side_info_stereo"
          /\ \E b \in SideBasesStereo, f \in FlipChoices(SideHeadBits, MaxFlips) :
                side = ApplyFlips(b, f, 1, SideHeadBits)
          /\ frame_header = <<>>
          /\ bytes = <<>>
       \/ /\ pc = "new_channel"
          /\ \E b \in ChannelBases, p \in 0..(ChannelBits - WindowBits),
                   v \in 0..((2 ^ WindowBits) - 1) :
                bytes = SetBits(b, p, WindowBits, v)
          /\ frame_header = <<>>
          /\ side = <<>>

\* where a call ends: a panic aborts the process
After(r) == IF r.kind = "Panic" THEN "panic" ELSE "returned"

ParseFrameHeader ==
    /\ pc = "new_frame_header"
    /\ header' = new_frame_header(frame_header)
    /\ pc' = After(header')
    /\ UNCHANGED <<frame_header, side, side_info, bytes, channel,
                   file, pos, open_frame_header, sync_at, decoded_at, result>>

ParseSideInfoMono ==
    /\ pc = "new_side_info_mono"
    /\ side_info' = new_side_info_mono(side)
    /\ pc' = After(side_info')
    /\ UNCHANGED <<frame_header, header, side, bytes, channel,
                   file, pos, open_frame_header, sync_at, decoded_at, result>>

ParseSideInfoStereo ==
    /\ pc = "new_side_info_stereo"
    /\ side_info' = new_side_info_stereo(side)
    /\ pc' = After(side_info')
    /\ UNCHANGED <<frame_header, header, side, bytes, channel,
                   file, pos, open_frame_header, sync_at, decoded_at, result>>

ParseChannel ==
    /\ pc = "new_channel"
    /\ channel' = new_channel(bytes)
    /\ pc' = After(channel')
    /\ UNCHANGED <<frame_header, header, side, side_info, bytes,
                   file, pos, open_frame_header, sync_at, decoded_at, result>>

Next == ParseFrameHeader \/ ParseSideInfoMono \/ ParseSideInfoStereo \/ ParseChannel

Spec == Init /\ [][Next]_vars

\* the channel parser alone
InitChannel ==
    /\ NoDriver
    /\ header = None
    /\ side_info = None
    /\ channel = None
    /\ pc = "new_channel"
    /\ \E b \in ChannelBases, p \in 0..(ChannelBits - WindowBits),
             v \in 0..((2 ^ WindowBits) - 1) :
          bytes = SetBits(b, p, WindowBits, v)
    /\ frame_header = <<>>
    /\ side = <<>>

SpecChannel == InitChannel /\ [][ParseChannel]_vars

---------------------------------------------------------------------------
(* The driver `open`, on files of two back-to-back frames and on a few     *)
(* truncated or unsynchronised files.                                      *)

\* headers new_frame_header accepts: Layer I, II and III, every bitrate index
\* 1..14, the three sampling frequencies
FrameHeaders ==
    { h \in { <<255, l, (16 * i) + f, 0>> : l \in {251, 253, 255}, i \in 1..14, f \in 0..2 } :
        new_frame_header(h).kind = "Ok" }

\* the first 4 bytes after a frame's header
PayloadHeads ==
    { <<255, 251, 16, 0>>, <<255, 251, 144, 192>>, <<18, 251, 144, 0>>, <<0, 0, 0, 0>> }

\* a frame: the header h, then new_frame_header(h).size further bytes that
\* begin with the bytes p
Frame(h, p) == h \o p \o Fill(new_frame_header(h).size - Len(p), 0)

FramedFiles ==
    { Frame(h1, p) \o Frame(h2, <<>>) :
        h1 \in FrameHeaders, p \in PayloadHeads,
        h2 \in { <<255, 251, 144, 0>>, <<255, 253, 16, 192>> } }

OtherFiles ==
    { <<>>,
      Fill(8, 0),
      <<255, 251>>,
      <<255, 251, 144, 0, 255, 251>>,
      <<255, 251, 144, 0, 255, 251, 16, 0, 0, 0>>,
      <<255, 251, 144, 0>> \o <<255, 251, 16, 0>> \o Fill(20, 0),
      <<255, 251, 144, 0>> \o <<255, 251, 16, 0>> \o Fill(60, 0),
      <<255, 251, 144, 0>> \o <<255, 251, 16, 0>> \o Fill(4 + 32 + 104, 0),
      <<0, 0, 0, 0>> \o <<255, 251, 16, 0>> \o <<255, 251, 16, 0>> \o Fill(104, 0),
      <<0, 0, 0, 0>> \o <<255, 251, 16, 0>> \o <<255, 251>>,
      <<0, 0, 0, 0>> \o <<255, 251, 16, 0>> \o <<255, 251, 16, 0>> \o Fill(10, 0),
      <<0, 0, 0, 0>> \o <<255, 251, 16, 0>> \o <<255, 235, 16, 0>> \o Fill(104, 0) }

InitOpen ==
    /\ file \in FramedFiles \cup OtherFiles
    /\ pos = 0
    /\ pc = "open"
    /\ open_frame_header = <<>>
    /\ frame_header = <<>>
    /\ header = None
    /\ side = <<>>
    /\ side_info = None
    /\ bytes = <<>>
    /\ channel = None
    /\ sync_at = 0
    /\ decoded_at = 0
    /\ result = None

\* read_exact of n bytes succeeds when the file holds them
CanRead(n) == pos + n <= Len(file)

\* the n bytes read_exact delivers
ReadBytes(n) == SubSeq(file, pos + 1, pos + n)

Err == [kind |-> "Err"]

Ok == [kind |-> "Ok"]

\* `?` on a failed read: open returns the error
OpenFails ==
    /\ result' = Err
    /\ pc' = "returned"

\* file.read_exact(&mut frame_header)?, at the start and after the first frame
OpenReadSyncWord ==
    /\ pc \in {"open", "second"}
    /\ IF CanRead(4)
       THEN /\ open_frame_header' = ReadBytes(4)
            /\ sync_at' = pos
            /\ pos' = pos + 4
            /\ pc' = IF pc = "open" THEN "sync1" ELSE "sync2"
            /\ UNCHANGED result
       ELSE /\ OpenFails
            /\ UNCHANGED <<open_frame_header, sync_at, pos>>
    /\ UNCHANGED <<frame_header, header, side, side_info, bytes, channel,
                   file, decoded_at>>

\* new_frame_header(&mut file)?, of either frame: it reads 4 more bytes
OpenNewFrameHeader ==
    /\ pc \in {"sync1", "sync2"}
    /\ has_sync_word(open_frame_header)
    /\ IF CanRead(4)
       THEN /\ frame_header' = ReadBytes(4)
            /\ header' = new_frame_header(frame_header')
            /\ decoded_at' = pos
            /\ pos' = pos + 4
            /\ pc' = IF header'.kind = "Panic" THEN "panic"
                     ELSE IF pc = "sync1" THEN "side1" ELSE "body2"
            /\ UNCHANGED result
       ELSE /\ OpenFails
            /\ UNCHANGED <<frame_header, header, decoded_at, pos>>
    /\ UNCHANGED <<side, side_info, bytes, channel, file, open_frame_header, sync_at>>

\* the first frame, lines 347 to 350: 4 bytes read and dropped, then
\* new_side_info reads and parses 17 or 32 bytes
OpenSideInfo ==
    /\ pc = "side1"
    /\ IF CanRead(4 + side_len(header))
       THEN /\ side' = SubSeq(file, pos + 5, pos + 4 + side_len(header))
            /\ side_info' = IF single_channel(header)
                            THEN new_side_info_mono(side')
                            ELSE new_side_info_stereo(side')
            /\ pos' = pos + 4 + side_len(header)
            /\ pc' = "body1"
            /\ UNCHANGED result
       ELSE /\ OpenFails
            /\ UNCHANGED <<side, side_info, pos>>
    /\ UNCHANGED <<frame_header, header, bytes, channel, file,
                   open_frame_header, sync_at, decoded_at>>

\* let mut body = vec![0; header.size]; file.read_exact(body.as_mut_slice())?
OpenReadBody ==
    /\ pc \in {"body1", "body2"}
    /\ IF CanRead(header.size)
       THEN /\ pos' = pos + header.size
            /\ IF pc = "body1"
               THEN pc' = "second" /\ UNCHANGED result
               ELSE pc' = "returned" /\ result' = Ok
       ELSE /\ OpenFails
            /\ UNCHANGED pos
    /\ UNCHANGED <<frame_header, header, side, side_info, bytes, channel, file,
                   open_frame_header, sync_at, decoded_at>>

\* has_sync_word is false: the frame is passed over
OpenNoSyncWord ==
    /\ pc \in {"sync1", "sync2"}
    /\ ~has_sync_word(open_frame_header)
    /\ IF pc = "sync1"
       THEN pc' = "second" /\ UNCHANGED result
       ELSE pc' = "returned" /\ result' = Ok
    /\ UNCHANGED <<frame_header, header, side, side_info, bytes, channel, file, pos,
                   open_frame_header, sync_at, decoded_at>>

NextOpen ==
    \/ OpenReadSyncWord
    \/ OpenNewFrameHeader
    \/ OpenSideInfo
    \/ OpenReadBody
    \/ OpenNoSyncWord

SpecOpen == InitOpen /\ [][NextOpen]_vars

---------------------------------------------------------------------------
(* The reference the claims are stated against: the unsigned value of a    *)
(* run of w bits starting at bit off, most significant bit first.          *)

RECURSIVE BitField(_, _, _)
BitField(bs, off, w) ==
    IF w = 0 THEN 0 ELSE 2 * BitField(bs, off, w - 1) + Bit(bs, off + w - 1)

\* a call has ended, by a return or by a panic
Ended == pc \in {"returned", "panic"}

---------------------------------------------------------------------------
(* Claims about the frame header.                                          *)

NamedHeaderFailures ==
    {"SyncNotFound", "UnsupportedVersion", "UnsupportedLayer",
     "InvalidBitrate", "InvalidSamplingRate"}

\* C1: for every 4-byte input whose first 11 bits are not all set,
\* new_frame_header reports SyncNotFound and produces no FrameHeader.
C1_SyncNotFound ==
    (Ended /\ frame_header # <<>> /\ BitField(frame_header, 0, 11) # 2047)
        => header.kind = "SyncNotFound"

\* C2: no parser aborts on malformed input: new_frame_header ends with a
\* FrameHeader or one of the named failures, new_channel with a Channel or
\* InvalidBlockType, and no panic state is reached.
C2_NoPanic ==
    /\ pc # "panic"
    /\ (Ended /\ frame_header # <<>>) => header.kind \in {"Ok"} \cup NamedHeaderFailures
    /\ (Ended /\ bytes # <<>>) => channel.kind \in {"Ok", "InvalidBlockType"}

\* the rate the sampling-frequency index stands for
RateOfIndex(i) ==
    CASE i = 0 -> 44100
      [] i = 1 -> 48000
      [] i = 2 -> 32000
      [] OTHER -> 0

\* C3: for every accepted header, sampling_freq is the rate of the 2-bit index
\* in bits 3..2 of byte 2 (bits 20 and 21 of the header), and flipping the
\* padding bit (22) or the private bit (23) does not change it.
C3_SamplingRateIndex ==
    (Ended /\ header.kind = "Ok") =>
        /\ header.sampling_freq = RateOfIndex(BitField(frame_header, 20, 2))
        /\ \A k \in {22, 23} :
              LET other == new_frame_header(FlipBit(frame_header, k))
              IN  other.kind = "Ok" /\ other.sampling_freq = header.sampling_freq

\* C4: for every accepted header, size is floor(144000 * bitrate / sampling_freq),
\* whatever the padding bit.
C4_FrameSizeValue ==
    (Ended /\ header.kind = "Ok") =>
        header.size = (144000 * header.bitrate) \div header.sampling_freq

---------------------------------------------------------------------------
(* Claims about the side information.                                      *)

\* C6: in both layouts main_data_begin is the 9-bit value of the first 9 bits
\* of the block, 2 * side[0] + (top bit of side[1]).
C6_MainDataBegin ==
    (Ended /\ side_info.kind = "Ok") =>
        /\ side_info.main_data_begin = BitField(side, 0, 9)
        /\ side_info.main_data_begin = 2 * At(side, 0) + (At(side, 1) \div 128)

\* the width of scale_factor_selection for a block: 4 bits (17 bytes), 6 bits (32 bytes)
ScfsiWidth(sd) == IF Len(sd) = 17 THEN 4 ELSE 6

\* the scfsi the parser of a block's layout yields
ScfsiOf(sd) == IF Len(sd) = 17 THEN scfsi_mono(sd) ELSE scfsi_stereo(sd)

\* C7: scfsi is below 16 (mono) or 64 (stereo) and depends only on the bits
\* right after main_data_begin, 9..12 (mono) or 9..14 (stereo): flipping any
\* other bit of the block's head leaves it as it is.
C7_ScfsiField ==
    (Ended /\ side_info.kind = "Ok") =>
        /\ side_info.scfsi < 2 ^ ScfsiWidth(side)
        /\ \A k \in (0..(SideHeadBits - 1)) \ (9..(8 + ScfsiWidth(side))) :
              ScfsiOf(FlipBit(side, k)) = side_info.scfsi

---------------------------------------------------------------------------
(* Claims about the driver.                                                *)

\* the file is two back-to-back frames, each a header with its sync word that
\* new_frame_header accepts followed by that header's size in bytes
IsFramed(f) ==
    /\ Len(f) >= 4
    /\ has_sync_word(SubSeq(f, 1, 4))
    /\ LET h1 == new_frame_header(SubSeq(f, 1, 4))
       IN  /\ h1.kind = "Ok"
           /\ Len(f) >= 8 + h1.size
           /\ has_sync_word(SubSeq(f, 5 + h1.size, 8 + h1.size))
           /\ LET h2 == new_frame_header(SubSeq(f, 5 + h1.size, 8 + h1.size))
              IN  h2.kind = "Ok" /\ Len(f) = 8 + h1.size + h2.size

\* the offset of the second frame of a framed file
SecondFrameAt(f) == 4 + new_frame_header(SubSeq(f, 1, 4)).size

\* C5: on a file of back-to-back frames, once the driver has parsed the first
\* frame's header and read its payload, its next sync check is on the first 4
\* bytes of the second frame: nothing between the frames is passed over.
C5_RoundTripFraming ==
    (IsFramed(file) /\ pc = "sync2") =>
        /\ sync_at = SecondFrameAt(file)
        /\ open_frame_header = SubSeq(file, SecondFrameAt(file) + 1, SecondFrameAt(file) + 4)

\* C1, in the driver: the 4 bytes new_frame_header decodes are the 4 bytes
\* whose sync word has_sync_word verified.
C1_DecodesCheckedBytes ==
    (pc \in {"side1", "body2", "panic"}) =>
        /\ decoded_at = sync_at
        /\ frame_header = open_frame_header

---------------------------------------------------------------------------
(* Claims about the channel.                                               *)

\* C8: with window_switching_flag (bit 33) = 0 new_channel yields the Normal
\* layout, subblock_gain all zero; with the flag = 1, when it returns, it yields
\* a block type of Start, Short, Mixed or End with region_0_count,
\* region_1_count and the third table_select zero.
C8_LayoutsNeverMix ==
    Ended =>
        IF Bit(bytes, 33) = 0
        THEN /\ channel.kind = "Ok"
             /\ channel.block_type = "Normal"
             /\ Len(channel.table_select) = 3
             /\ channel.subblock_gain = <<0, 0, 0>>
        ELSE channel.kind = "Ok" =>
             /\ channel.block_type \in {"Start", "Short", "Mixed", "End"}
             /\ Len(channel.subblock_gain) = 3
             /\ channel.region_0_count = 0
             /\ channel.region_1_count = 0
             /\ At(channel.table_select, 2) = 0

\* a window-switched channel whose input has bits set where the Normal layout
\* keeps its region counts
C8_Witness ==
    /\ pc = "returned"
    /\ Bit(bytes, 33) = 1
    /\ channel.kind = "Ok"
    /\ BitField(bytes, 49, 7) # 0
    /\ channel.subblock_gain # <<0, 0, 0>>
    /\ channel.region_0_count = 0

\* C9: with window_switching_flag = 1, block-type code 10 (bits 34..35) yields
\* Mixed when the next bit (36) is set and Short when it is clear; codes 01
\* and 11 yield Start and End whatever bit 36 is; Mixed comes from code 10 only.
C9_BlockTypeBranch ==
    (Ended /\ Bit(bytes, 33) = 1) =>
        /\ BitField(bytes, 34, 2) = 2 =>
              /\ channel.kind = "Ok"
              /\ channel.block_type = IF Bit(bytes, 36) = 1 THEN "Mixed" ELSE "Short"
        /\ BitField(bytes, 34, 2) = 1 => (channel.kind = "Ok" /\ channel.block_type = "Start")
        /\ BitField(bytes, 34, 2) = 3 => (channel.kind = "Ok" /\ channel.block_type = "End")
        /\ (channel.kind = "Ok" /\ channel.block_type = "Mixed") =>
              (BitField(bytes, 34, 2) = 2 /\ Bit(bytes, 36) = 1)

C9_Witness ==
    /\ pc = "returned"
    /\ channel.kind = "Ok"
    /\ channel.block_type = "Mixed"
    /\ Bit(bytes, 33) = 1

\* C10: the leading fields are the consecutive bit runs of the window:
\* part2_3_length bits 0..11, big_values bits 12..20, global_gain bits 21..28,
\* scalefac_compress bits 29..32, window_switching_flag bit 33, in what
\* new_channel computes for every input and in the Channel it returns.
C10_LeadingFields ==
    Ended =>
        /\ part2_3_length(bytes) = BitField(bytes, 0, 12)
        /\ big_values(bytes) = BitField(bytes, 12, 9)
        /\ global_gain(bytes) = BitField(bytes, 21, 8)
        /\ scalefac_compress(bytes) = BitField(bytes, 29, 4)
        /\ windows_witching_flag(bytes) = Bit(bytes, 33)
        /\ channel.kind = "Ok" =>
              /\ channel.part2_3_length = BitField(bytes, 0, 12)
              /\ channel.big_values = BitField(bytes, 12, 9)
              /\ channel.global_gain = BitField(bytes, 21, 8)
              /\ channel.scalefac_compress = BitField(bytes, 29, 4)
              /\ (channel.block_type = "Normal") = (Bit(bytes, 33) = 0)

\* a channel whose four leading fields each take bits from two bytes
C10_Witness ==
    /\ pc = "returned"
    /\ channel.kind = "Ok"
    /\ channel.part2_3_length > 255 /\ channel.part2_3_length % 16 # 0
    /\ channel.big_values > 31 /\ channel.big_values % 32 # 0
    /\ channel.global_gain > 31 /\ channel.global_gain % 32 # 0
    /\ channel.scalefac_compress > 1 /\ channel.scalefac_compress % 2 = 1

===========================================================================
